---- MODULE Spec2Model ----
(***************************************************************************)
(* A model of the bit-banged 1-Wire DS18B20 driver of pxt-ds18b20.cpp.     *)
(*                                                                         *)
(* The program counter pc is the source line about to be executed; stack   *)
(* holds the lines of the pending call statements, innermost first.  A     *)
(* returning function resumes its caller at After[call line].  pc = 0      *)
(* means that control is with the caller of temperature().  Temperatures   *)
(* are kept in sixteenths of a degree: the code multiplies a 16-bit        *)
(* integer by 0.0625, which is exact in float, so the returned float is    *)
(* ret / 16.                                                               *)
(***************************************************************************)
EXTENDS Integers, Sequences, FiniteSets, TLC

VARIABLES
  pc,        \* source line about to be executed (0: outside the driver)
  stack,     \* lines of the pending call statements, innermost first
  p,         \* temperature(int p): the selector
  pin,       \* the global MicroBitPin *pin, as the index of the pin it points to
  wdata,     \* ds18b20WiteByte: parameter data
  wi,        \* ds18b20WiteByte: loop variable i
  bit,       \* ds18b20ReadBit: bit, returned into ds18b20ReadByte: bit
  data,      \* ds18b20ReadByte: data
  ri,        \* ds18b20ReadByte: loop variable i
  state,     \* ds18b20Check: state
  TL,        \* ds18b20GetTemperture: TL
  TH,        \* ds18b20GetTemperture: TH
  temp,      \* ds18b20GetTemperture: temp (uint16_t)
  ret,       \* value returned by temperature(), in sixteenths of a degree
  drv,       \* per pin: the level setDigitalValue last drove (-1: never driven)
  held,      \* microseconds of straight-line sleep_us delay since the last drive
  sensor,    \* what is on the line: "present", "absent", "stuck", "loopback"
  scratch,   \* the sensor's scratchpad bytes 0 and 1: <<LSB, MSB>>
  wbits,     \* bits the line has seen written since the last reset pulse
  rcount,    \* read slots sampled since the last reset pulse
  calls,     \* calls of temperature() begun
  chk,       \* result of the presence check of the current transaction
  failed,    \* some presence check of the current call returned false
  prev,      \* outcome of the previous call of temperature()
  obs,       \* line levels ds18b20Check has sampled, as counts
  us,        \* sleep_us: parameter us
  lasttime,  \* sleep_us: lasttime (int)
  nowtime,   \* sleep_us: nowtime (int)
  clock,     \* system_timer_current_time_us() converted to int: its low 32 bits
  elapsed,   \* microseconds the timer has advanced since sleep_us was entered
  elast,     \* elapsed when lasttime was read
  enow,      \* elapsed when nowtime was last read
  log,       \* bus operations completed in the current call, in order
  lowFor,    \* microseconds of delay the last low pulse lasted
  binds      \* assignments to the global pin in the current call

ctl  == <<pc, stack>>
sel  == <<p, pin>>
wr   == <<wdata, wi>>
rd   == <<bit, data, ri>>
gt   == <<TL, TH, temp, ret>>
loc  == <<sel, wr, rd, state, gt>>
bus  == <<drv, held>>
env  == <<sensor, scratch>>
wire == <<wbits, rcount>>
hist == <<calls, chk, failed, prev>>
slp  == <<us, lasttime, nowtime, clock, elapsed, elast, enow>>
trc  == <<log, lowFor, binds>>
vars == <<ctl, loc, bus, env, wire, hist, obs, slp, trc>>

----------------------------------------------------------------------------
(* Bounds of the model. *)

\* temperature() is called at most this many times in a run.
MaxCalls == 2
\* Selectors below 0 and above 16 that the caller may pass.
SelBelow == 1
SelAbove == 1
\* The clock advances by at most this much between two reads of it.
MaxTick == 2
\* sleep_us is entered at most this many microseconds before the int wraps.
WrapWindow == 3
\* sleep_us is followed for this many microseconds beyond its delay.
SleepSlack == 6

Selectors == (0 - SelBelow)..(16 + SelAbove)
Pins == 0..16
Byte == 0..255

\* Scratchpad contents <<LSB, MSB>> of the simulated sensor.
ScratchSamples == { <<208, 7>>, <<156, 255>> }

----------------------------------------------------------------------------
(* Integer helpers: C's operators on the widths the code uses. *)

\* (v >> i) & 0x01
BitOf(v, i) == (v \div (2 ^ i)) % 2

RECURSIVE BitAndN(_, _, _)
BitAndN(a, b, n) ==
  IF n = 0 THEN 0
  ELSE (a % 2) * (b % 2) + 2 * BitAndN(a \div 2, b \div 2, n - 1)

RECURSIVE BitOrN(_, _, _)
BitOrN(a, b, n) ==
  IF n = 0 THEN 0
  ELSE (IF (a % 2) + (b % 2) > 0 THEN 1 ELSE 0)
       + 2 * BitOrN(a \div 2, b \div 2, n - 1)

\* a & b and a | b on 16-bit operands
And16(a, b) == BitAndN(a, b, 16)
Or16(a, b) == BitOrN(a, b, 16)

\* conversion to uint16_t and to uint8_t
U16(x) == x % 65536
U8(x) == x % 256

\* The largest int; the smallest is IntMin.  (The model checker's integers
\* are 32 bits wide themselves, so the operators below never form a value
\* outside IntMin..IntMax.)
IntMax == 2147483647
IntMin == (0 - IntMax) - 1

\* The int that (int)(t + d) is when (int)t is c, for a 64-bit timer value t
\* and 0 <= d: the conversion keeps the low 32 bits, so the int wraps from
\* IntMax to IntMin.
AddWrap(c, d) ==
  IF c > IntMax - d
  THEN IntMin + ((d - (IntMax - c)) - 1)
  ELSE c + d

\* a - b of two ints overflows int.
SubOverflows(a, b) ==
  CASE a >= 0 /\ b < 0 -> a > IntMax + b
    [] a < 0 /\ b >= 0 -> a < (b - IntMax) - 1
    [] OTHER -> FALSE

\* a - b in two's complement arithmetic of 32 bits.
SubWrap(a, b) ==
  CASE ~SubOverflows(a, b) -> a - b
    [] a < 0 -> ((((a + IntMax) + 1) - b) + IntMax) + 1
    [] OTHER -> ((((a - IntMax) - 1) - b) - IntMax) - 1

----------------------------------------------------------------------------
(* The program text as tables over source lines. *)

\* SetAt with line 51 driving low.
SetAtLeftLow ==
  42 :> 0 @@ 44 :> 1 @@ 49 :> 0 @@ 51 :> 0 @@
  75 :> 0 @@ 77 :> 1 @@ 133 :> 0 @@ 135 :> 1

\* pin->setDigitalValue(v): the line of each call and the level it drives.
SetAt ==
  42 :> 0 @@ 44 :> 1 @@ 49 :> 0 @@ 51 :> 1 @@
  75 :> 0 @@ 77 :> 1 @@ 133 :> 0 @@ 135 :> 1

\* Tables that differ from SleepAt in one delay (lines 43, 78, 134, 52).
SleepAtLongOne ==
  43 :> 20 @@ 45 :> 60 @@ 50 :> 60 @@ 52 :> 2 @@
  76 :> 2 @@ 78 :> 5 @@ 84 :> 60 @@ 112 :> 2 @@ 116 :> 2 @@
  134 :> 750 @@ 136 :> 15 @@ 186 :> 2 @@ 210 :> 100 @@ 215 :> 2 @@ 220 :> 100

SleepAtLateSample ==
  43 :> 2 @@ 45 :> 60 @@ 50 :> 60 @@ 52 :> 2 @@
  76 :> 2 @@ 78 :> 15 @@ 84 :> 60 @@ 112 :> 2 @@ 116 :> 2 @@
  134 :> 750 @@ 136 :> 15 @@ 186 :> 2 @@ 210 :> 100 @@ 215 :> 2 @@ 220 :> 100

SleepAtShortReset ==
  43 :> 2 @@ 45 :> 60 @@ 50 :> 60 @@ 52 :> 2 @@
  76 :> 2 @@ 78 :> 5 @@ 84 :> 60 @@ 112 :> 2 @@ 116 :> 2 @@
  134 :> 75 @@ 136 :> 15 @@ 186 :> 2 @@ 210 :> 100 @@ 215 :> 2 @@ 220 :> 100

SleepAtNoRecovery ==
  43 :> 2 @@ 45 :> 60 @@ 50 :> 60 @@ 52 :> 0 @@
  76 :> 2 @@ 78 :> 5 @@ 84 :> 60 @@ 112 :> 2 @@ 116 :> 2 @@
  134 :> 750 @@ 136 :> 15 @@ 186 :> 2 @@ 210 :> 100 @@ 215 :> 2 @@ 220 :> 100

\* sleep_us(n) called in straight-line code: the line and the delay.
SleepAt ==
  43 :> 2 @@ 45 :> 60 @@ 50 :> 60 @@ 52 :> 2 @@
  76 :> 2 @@ 78 :> 5 @@ 84 :> 60 @@ 112 :> 2 @@ 116 :> 2 @@
  134 :> 750 @@ 136 :> 15 @@ 186 :> 2 @@ 210 :> 100 @@ 215 :> 2 @@ 220 :> 100

\* ds18b20WiteByte(c): the line of each call and the command byte.
WiteArgSwapped == 188 :> 68 @@ 189 :> 204 @@ 216 :> 204 @@ 217 :> 190

WiteArg == 188 :> 204 @@ 189 :> 68 @@ 216 :> 204 @@ 217 :> 190

\* The line executed after a statement completes (for a call statement: after
\* the callee returns).  54 and 115 are the closing braces of the two for
\* loops, where i++ runs; 301..303 and 311..312 are the statements of a
\* caller that exercises ds18b20WiteByte/ds18b20ReadByte and sleep_us alone.
After ==
  42 :> 43 @@ 43 :> 44 @@ 44 :> 45 @@ 45 :> 54 @@
  49 :> 50 @@ 50 :> 51 @@ 51 :> 52 @@ 52 :> 54 @@
  75 :> 76 @@ 76 :> 77 @@ 77 :> 78 @@ 78 :> 80 @@ 84 :> 86 @@
  111 :> 112 @@ 112 :> 114 @@ 116 :> 118 @@
  133 :> 134 @@ 134 :> 135 @@ 135 :> 136 @@ 136 :> 137 @@
  183 :> 184 @@ 184 :> 186 @@ 186 :> 188 @@ 188 :> 189 @@ 189 :> 190 @@
  208 :> 210 @@ 210 :> 213 @@ 213 :> 214 @@ 214 :> 215 @@ 215 :> 216 @@
  216 :> 217 @@ 217 :> 219 @@ 219 :> 220 @@ 220 :> 221 @@ 221 :> 224 @@
  265 :> 0 @@ 301 :> 302 @@ 302 :> 303 @@ 311 :> 312

\* A call statement at the current line enters the callee at line entry.
CallFn(entry) ==
  /\ stack' = <<pc>> \o stack
  /\ pc' = entry

\* A return resumes the caller after its call statement.
Return ==
  /\ pc' = After[Head(stack)]
  /\ stack' = Tail(stack)

----------------------------------------------------------------------------
(* What is on the line. *)

\* The bit a 1-Wire slave takes from a write slot whose low pulse lasted
\* lowUs: the master released within 15us for a 1, held for the slot for a 0.
WireBit(lowUs) == IF lowUs < 15 THEN 1 ELSE 0

\* The 8 bits of a byte in the order of transfer, least significant first.
BitsOf(v) == [k \in 1..8 |-> BitOf(v, k - 1)]

\* The sensor sends its scratchpad once it was addressed with Skip ROM [CCh]
\* and Read Scratchpad [BEh] after the reset pulse.
SensorAnswers == wbits = BitsOf(204) \o BitsOf(190)

\* The level getDigitalValue returns in a read slot.  A slave sends a 0 by
\* pulling the line low and a 1 by leaving it high; an idle line is high.
ReadLevel ==
  CASE sensor = "absent" -> 1
    [] sensor = "stuck" -> 0
    [] sensor = "present" ->
         IF SensorAnswers /\ rcount < 16
         THEN BitOf(scratch[(rcount \div 8) + 1], rcount % 8)
         ELSE 1
    [] sensor = "loopback" ->
         IF rcount < Len(wbits) THEN wbits[rcount + 1] ELSE 1

\* The levels getDigitalValue may return while ds18b20Check polls: an absent
\* device leaves the line high, a stuck line stays low, and a device may
\* start and end its presence pulse at any poll.
CheckLevels ==
  CASE sensor = "absent" -> {1}
    [] sensor = "stuck" -> {0}
    [] OTHER -> {0, 1}

\* What ds18b20Check has seen: highs before the first low sample, low samples,
\* and whether a high sample followed a low one.
Observe(o, lv) ==
  IF lv = 1
  THEN IF o.lows = 0 THEN [o EXCEPT !.highs = o.highs + 1]
       ELSE [o EXCEPT !.rel = TRUE]
  ELSE [o EXCEPT !.lows = o.lows + 1]

----------------------------------------------------------------------------
(* The initial state: the program loaded, nothing called yet. *)

InitLocals ==
  /\ p = 8 /\ pin = 8
  /\ wdata = 0 /\ wi = 0
  /\ bit = 0 /\ data = 0 /\ ri = 0
  /\ state = 0
  /\ TL = 0 /\ TH = 0 /\ temp = 0 /\ ret = 0

InitBus ==
  /\ drv = [q \in Pins |-> -1]
  /\ held = 0
  /\ wbits = <<>>
  /\ rcount = 0

InitHist ==
  /\ calls = 0
  /\ chk = "none"
  /\ failed = FALSE
  /\ prev = [ret |-> 0, ok |-> FALSE]
  /\ obs = [highs |-> 0, lows |-> 0, rel |-> FALSE]
  /\ log = <<>>
  /\ lowFor = 0
  /\ binds = 0

InitSleep ==
  /\ us = 0 /\ lasttime = 0 /\ nowtime = 0
  /\ clock = 0 /\ elapsed = 0 /\ elast = 0 /\ enow = 0

\* MicroBitPin *pin = &uBit.io.P8; the sensor and its scratchpad are the
\* environment's.
Init ==
  /\ pc = 0 /\ stack = <<>>
  /\ InitLocals /\ InitBus /\ InitHist /\ InitSleep
  /\ \/ sensor \in {"absent", "stuck"} /\ scratch = <<255, 255>>
     \/ sensor = "present" /\ scratch \in ScratchSamples

----------------------------------------------------------------------------
(* temperature(int p) *)

\* The pin the switch statement binds.
BindDefaultP0(s) == IF s \in 0..16 THEN s ELSE 0

Bind(s) ==
  CASE s = 0 -> 0 [] s = 1 -> 1 [] s = 2 -> 2 [] s = 3 -> 3
    [] s = 4 -> 4 [] s = 5 -> 5 [] s = 6 -> 6 [] s = 7 -> 7
    [] s = 8 -> 8 [] s = 9 -> 9 [] s = 10 -> 10 [] s = 11 -> 11
    [] s = 12 -> 12 [] s = 13 -> 13 [] s = 14 -> 14 [] s = 15 -> 15
    [] s = 16 -> 16
    [] OTHER -> 8

\* The host calls temperature(s); a second call passes the same selector.
Call ==
  /\ pc = 0
  /\ calls < MaxCalls
  /\ \E s \in Selectors :
       /\ calls = 0 \/ s = p
       /\ p' = s
  /\ calls' = calls + 1
  /\ prev' = IF calls = 0 THEN prev ELSE [ret |-> ret, ok |-> ~failed]
  /\ failed' = FALSE
  /\ chk' = "none"
  /\ pc' = 244
  /\ log' = <<>>
  /\ binds' = 0
  /\ UNCHANGED <<stack, pin, wr, rd, state, gt, bus, env, wire, obs, slp, lowFor>>

\* switch (p) { case 0: pin = &uBit.io.P0; break; ... default: ... }
TemperatureSwitch ==
  /\ pc = 244
  /\ pin' = Bind(p)
  /\ binds' = binds + 1
  /\ pc' = 265
  /\ UNCHANGED <<stack, p, wr, rd, state, gt, bus, env, wire, hist, obs, slp, log, lowFor>>

\* return ds18b20GetTemperture();
TemperatureGet ==
  /\ pc = 265
  /\ CallFn(208)
  /\ UNCHANGED <<loc, bus, env, wire, hist, obs, slp, trc>>

----------------------------------------------------------------------------
(* Statements shared by the functions: driving the pin, delays, calls. *)

\* pin->setDigitalValue(v).  The line sees a reset pulse begin at line 133
\* and a write slot's low pulse end at lines 44 and 51.
DoSet ==
  /\ pc \in DOMAIN SetAt
  /\ drv' = [drv EXCEPT ![pin] = SetAt[pc]]
  /\ held' = 0
  /\ wbits' = CASE pc = 133 -> <<>>
                [] pc \in {44, 51} -> Append(wbits, WireBit(held))
                [] OTHER -> wbits
  /\ rcount' = IF pc = 133 THEN 0 ELSE rcount
  /\ chk' = IF pc = 133 THEN "none" ELSE chk
  /\ lowFor' = IF SetAt[pc] = 1 THEN held ELSE lowFor
  /\ log' = IF pc \in {44, 51}
            THEN Append(log, IF WireBit(held) = 1 THEN "w1" ELSE "w0")
            ELSE log
  /\ pc' = After[pc]
  /\ UNCHANGED <<stack, loc, env, calls, failed, prev, obs, slp, binds>>

\* sleep_us(n) in straight-line code returns after at least n microseconds.
\* The delays of ds18b20Start and ds18b20GetTemperture themselves (lines 186,
\* 210, 215, 220) are entered in log.
DoSleep ==
  /\ pc \in DOMAIN SleepAt
  /\ held' = held + SleepAt[pc]
  /\ log' = IF pc \in {186, 210, 215, 220} THEN Append(log, "delay") ELSE log
  /\ pc' = After[pc]
  /\ UNCHANGED <<stack, loc, drv, env, wire, hist, obs, slp, lowFor, binds>>

\* ds18b20Rest(); in ds18b20Start and ds18b20GetTemperture
CallRest ==
  /\ pc \in {183, 213}
  /\ CallFn(133)
  /\ UNCHANGED <<loc, bus, env, wire, hist, obs, slp, trc>>

\* ds18b20Check(); its result is dropped.  int state = 0;
CallCheck ==
  /\ pc \in {184, 214}
  /\ CallFn(149)
  /\ state' = 0
  /\ UNCHANGED <<sel, wr, rd, gt, bus, env, wire, hist, obs, slp, trc>>

\* ds18b20WiteByte(c); for (int i = 0; ...
CallWite ==
  /\ pc \in DOMAIN WiteArg
  /\ CallFn(38)
  /\ wdata' = WiteArg[pc]
  /\ wi' = 0
  /\ UNCHANGED <<sel, rd, state, gt, bus, env, wire, hist, obs, slp, trc>>

\* uint8_t data = 0;
DataKept(old) == old

DataInit(old) == 0

\* TL = ds18b20ReadByte(); TH = ds18b20ReadByte(); for (int i = 0; ...
CallReadByte ==
  /\ pc \in {219, 221}
  /\ CallFn(109)
  /\ data' = DataInit(data)
  /\ ri' = 0
  /\ UNCHANGED <<sel, wr, bit, state, gt, bus, env, wire, hist, obs, slp, trc>>

----------------------------------------------------------------------------
(* ds18b20WiteByte(uint8_t data) *)

\* for (...; i < 8; ...) if ((data >> i) & 0x01)
WiteByteTestMsb ==
  /\ pc = 38
  /\ IF wi < 8
     THEN /\ pc' = IF BitOf(wdata, 7 - wi) = 1 THEN 42 ELSE 49
          /\ UNCHANGED stack
     ELSE Return
  /\ UNCHANGED <<loc, bus, env, wire, hist, obs, slp, trc>>

WiteByteTest ==
  /\ pc = 38
  /\ IF wi < 8
     THEN /\ pc' = IF BitOf(wdata, wi) = 1 THEN 42 ELSE 49
          /\ UNCHANGED stack
     ELSE Return
  /\ UNCHANGED <<loc, bus, env, wire, hist, obs, slp, trc>>

\* i++
WiteByteIncr ==
  /\ pc = 54
  /\ wi' = wi + 1
  /\ pc' = 38
  /\ UNCHANGED <<stack, sel, wdata, rd, state, gt, bus, env, wire, hist, obs, slp, trc>>

----------------------------------------------------------------------------
(* ds18b20ReadBit() and ds18b20ReadByte() *)

\* if (pin->getDigitalValue()) bit = 1; else bit = 0;
ReadBitSample ==
  /\ pc = 80
  /\ bit' = IF ReadLevel = 1 THEN 1 ELSE 0
  /\ rcount' = rcount + 1
  /\ log' = Append(log, IF ReadLevel = 1 THEN "r1" ELSE "r0")
  /\ pc' = 84
  /\ UNCHANGED <<stack, sel, wr, data, ri, state, gt, bus, env, wbits, hist, obs, slp,
                 lowFor, binds>>

\* return bit;
ReadBitReturn ==
  /\ pc = 86
  /\ Return
  /\ UNCHANGED <<loc, bus, env, wire, hist, obs, slp, trc>>

\* for (...; i < 8; ...) bit = ds18b20ReadBit();
ReadByteTestSeven ==
  /\ pc = 109
  /\ IF ri < 7
     THEN /\ stack' = <<111>> \o stack
          /\ pc' = 75
     ELSE /\ pc' = 116
          /\ UNCHANGED stack
  /\ UNCHANGED <<loc, bus, env, wire, hist, obs, slp, trc>>

ReadByteTest ==
  /\ pc = 109
  /\ IF ri < 8
     THEN /\ stack' = <<111>> \o stack
          /\ pc' = 75
     ELSE /\ pc' = 116
          /\ UNCHANGED stack
  /\ UNCHANGED <<loc, bus, env, wire, hist, obs, slp, trc>>

\* data | (bit << i), stored into a uint8_t
AccumulateMsbFirst(d, b, i) == U8(Or16(d, b * (2 ^ (7 - i))))

Accumulate(d, b, i) == U8(Or16(d, b * (2 ^ i)))

\* data = data | (bit << i);
ReadByteAccum ==
  /\ pc = 114
  /\ data' = Accumulate(data, bit, ri)
  /\ pc' = 115
  /\ UNCHANGED <<stack, sel, wr, bit, ri, state, gt, bus, env, wire, hist, obs, slp, trc>>

\* i++
ReadByteIncr ==
  /\ pc = 115
  /\ ri' = ri + 1
  /\ pc' = 109
  /\ UNCHANGED <<stack, sel, wr, bit, data, state, gt, bus, env, wire, hist, obs, slp, trc>>

\* return data; into TL at line 219 (and for the caller at 302), TH at 221
ReadByteReturnSwapped ==
  /\ pc = 118
  /\ TL' = IF Head(stack) \in {221, 302} THEN data ELSE TL
  /\ TH' = IF Head(stack) = 219 THEN data ELSE TH
  /\ Return
  /\ UNCHANGED <<sel, wr, rd, state, temp, ret, bus, env, wire, hist, obs, slp, trc>>

ReadByteReturn ==
  /\ pc = 118
  /\ TL' = IF Head(stack) \in {219, 302} THEN data ELSE TL
  /\ TH' = IF Head(stack) = 221 THEN data ELSE TH
  /\ Return
  /\ UNCHANGED <<sel, wr, rd, state, temp, ret, bus, env, wire, hist, obs, slp, trc>>

----------------------------------------------------------------------------
(* ds18b20Rest() and ds18b20Check() *)

\* the end of ds18b20Rest
RestReturn ==
  /\ pc = 137
  /\ Return
  /\ log' = Append(log, "reset")
  /\ UNCHANGED <<loc, bus, env, wire, hist, obs, slp, lowFor, binds>>

\* if (state >= 200), at lines 153 and 156
HighExpiredLate(s) == s > 200

HighExpired(s) == s >= 200

\* if (state >= 240), at lines 165 and 168
LowExpiredLate(s) == s > 240

LowExpired(s) == s >= 240

\* return false; / return true;  The caller drops the value; the model keeps
\* it in chk.  state ends with the call.
CheckReturn(result) ==
  /\ chk' = IF result THEN "ok" ELSE "fail"
  /\ failed' = (failed \/ ~result)
  /\ state' = 0
  /\ Return
  /\ log' = Append(log, "check")
  /\ UNCHANGED <<calls, prev>>

\* if (state >= 200) return false; else state = 0;
AfterHighLoop(s) ==
  IF HighExpired(s)
  THEN CheckReturn(FALSE)
  ELSE /\ state' = 0
       /\ pc' = 161
       /\ UNCHANGED <<stack, hist, log>>

\* if (state >= 240) return false; return true;
AfterLowLoop(s) ==
  IF LowExpired(s)
  THEN CheckReturn(FALSE)
  ELSE CheckReturn(TRUE)

\* One pass of while (pin->getDigitalValue()) { state++; sleep_us(1);
\* if (state >= 200) break; } with the line sampled at lv; leaving the loop
\* runs the statement after it.  The 1us delays of the polls are counted by
\* state, not by held.
CheckHighPoll(lv) ==
  /\ pc = 149
  /\ IF lv = 1
     THEN IF HighExpired(state + 1)
          THEN AfterHighLoop(state + 1)
          ELSE /\ state' = state + 1
               /\ pc' = 149
               /\ UNCHANGED <<stack, hist, log>>
     ELSE AfterHighLoop(state)
  /\ UNCHANGED <<sel, wr, rd, gt, bus, env, wire, slp, lowFor, binds>>

\* One pass of while (!pin->getDigitalValue()) { state++; sleep_us(1);
\* if (state >= 240) break; } with the line sampled at lv; leaving the loop
\* runs the statement after it.
CheckLowPoll(lv) ==
  /\ pc = 161
  /\ IF lv = 0
     THEN IF LowExpired(state + 1)
          THEN AfterLowLoop(state + 1)
          ELSE /\ state' = state + 1
               /\ pc' = 161
               /\ UNCHANGED <<stack, hist, log>>
     ELSE AfterLowLoop(state)
  /\ UNCHANGED <<sel, wr, rd, gt, bus, env, wire, slp, lowFor, binds>>

\* ds18b20Check as the driver runs it.
CheckHigh ==
  /\ \E lv \in CheckLevels : CheckHighPoll(lv)
  /\ UNCHANGED obs

CheckLow ==
  /\ \E lv \in CheckLevels : CheckLowPoll(lv)
  /\ UNCHANGED obs

\* ds18b20Check with the sampled levels counted.
CheckHighObserved ==
  \E lv \in CheckLevels :
    /\ CheckHighPoll(lv)
    /\ obs' = Observe(obs, lv)

CheckLowObserved ==
  \E lv \in CheckLevels :
    /\ CheckLowPoll(lv)
    /\ obs' = Observe(obs, lv)

----------------------------------------------------------------------------
(* ds18b20Start() and ds18b20GetTemperture() *)

\* the end of ds18b20Start
StartReturn ==
  /\ pc = 190
  /\ Return
  /\ UNCHANGED <<loc, bus, env, wire, hist, obs, slp, trc>>

\* ds18b20Start();
GetStart ==
  /\ pc = 208
  /\ CallFn(183)
  /\ UNCHANGED <<loc, bus, env, wire, hist, obs, slp, trc>>

\* temp = TH; temp << 8; temp = temp + TL;  The statement temp << 8; computes
\* a value and drops it: temp is not changed by it.
Combine(th, tl) ==
  LET t1 == U16(th)
      t2 == t1
  IN U16(t2 + tl)

\* (temp & 0xF800) == 0xF800
SignPattern(t) == And16(t, 63488) = 63488

\* temp = (~temp) + 1; in int, stored into the uint16_t
Negate16(t) == U16((0 - t - 1) + 1)

\* if (sign) { temp = (~temp) + 1; return temp * -0.0625; }
\* else return temp * 0.0625;  in sixteenths of a degree
Decoded(th, tl) ==
  LET t == Combine(th, tl)
  IN IF SignPattern(t) THEN 0 - Negate16(t) ELSE t

\* Lines 224..234: the decoder, and the return through temperature().
GetDecode ==
  /\ pc = 224
  /\ temp' = LET t == Combine(TH, TL)
             IN IF SignPattern(t) THEN Negate16(t) ELSE t
  /\ ret' = Decoded(TH, TL)
  /\ Return
  /\ UNCHANGED <<sel, wr, rd, state, TL, TH, bus, env, wire, hist, obs, slp, trc>>

----------------------------------------------------------------------------
(* sleep_us(int us) *)

\* What (nowtime - lasttime) < us can evaluate to.  When the subtraction
\* overflows int the behaviour is undefined: a build that subtracts in two's
\* complement compares the wrapped difference, and a build that relies on
\* signed arithmetic not overflowing may compare the difference itself
\* (below IntMin when a < b, above IntMax otherwise).
LessOutcomes(a, b, n) ==
  IF SubOverflows(a, b)
  THEN {SubWrap(a, b) < n, a < b}
  ELSE {(a - b) < n}

\* system_timer_current_time_us(): the timer has advanced by d since the
\* last read of it.
ReadTimer(d) ==
  /\ clock' = AddWrap(clock, d)
  /\ elapsed' = elapsed + d

\* lasttime = system_timer_current_time_us();
SleepReadLast ==
  /\ pc = 12
  /\ \E d \in 0..MaxTick : ReadTimer(d)
  /\ lasttime' = clock'
  /\ elast' = elapsed'
  /\ pc' = 13
  /\ UNCHANGED <<stack, loc, bus, env, wire, hist, obs, us, nowtime, enow, trc>>

\* nowtime = system_timer_current_time_us(); at lines 13 and 16.  The model
\* stops polling SleepSlack microseconds after the delay has passed.
SleepReadNow ==
  /\ pc \in {13, 16}
  /\ elapsed < us + SleepSlack
  /\ \E d \in 0..MaxTick : ReadTimer(d)
  /\ nowtime' = clock'
  /\ enow' = elapsed'
  /\ pc' = 14
  /\ UNCHANGED <<stack, loc, bus, env, wire, hist, obs, us, lasttime, elast, trc>>

\* while ((nowtime - lasttime) < us)
SleepTest ==
  /\ pc = 14
  /\ \E c \in LessOutcomes(nowtime, lasttime, us) :
       pc' = IF c THEN 16 ELSE 18
  /\ UNCHANGED <<stack, loc, bus, env, wire, hist, obs, slp, trc>>

\* the end of sleep_us
SleepReturn ==
  /\ pc = 18
  /\ Return
  /\ UNCHANGED <<loc, bus, env, wire, hist, obs, slp, trc>>

\* sleep_us(n) called when the timer is within n us of the wrap of the int:
\* lasttime is read before the wrap and nowtime after it, so nowtime -
\* lasttime overflows.  In a build whose comparison then sees a difference
\* below us the loop polls again (line 16), and no later reading r can end
\* it, as r <= INT_MAX < lasttime + us.
SleepHang ==
  /\ pc \in DOMAIN SleepAt
  /\ \E d \in 0..MaxTick, t \in 1..MaxTick :
       /\ d < SleepAt[pc] /\ d < t
       /\ lasttime' = IntMax - d
       /\ nowtime' = AddWrap(IntMax - d, t)
       /\ SubOverflows(nowtime', lasttime')
       /\ TRUE \in LessOutcomes(nowtime', lasttime', SleepAt[pc])
  /\ us' = SleepAt[pc]
  /\ stack' = <<pc>> \o stack
  /\ pc' = 16
  /\ UNCHANGED <<loc, bus, env, wire, hist, obs, clock, elapsed, elast, enow, trc>>

----------------------------------------------------------------------------
(* The driver called by the host. *)

Next ==
  \/ Call
  \/ TemperatureSwitch
  \/ TemperatureGet
  \/ DoSet
  \/ DoSleep
  \/ CallRest
  \/ CallCheck
  \/ CallWite
  \/ CallReadByte
  \/ WiteByteTest
  \/ WiteByteIncr
  \/ ReadBitSample
  \/ ReadBitReturn
  \/ ReadByteTest
  \/ ReadByteAccum
  \/ ReadByteIncr
  \/ ReadByteReturn
  \/ RestReturn
  \/ CheckHigh
  \/ CheckLow
  \/ StartReturn
  \/ GetStart
  \/ GetDecode
  \/ SleepHang

Spec == Init /\ [][Next]_vars

\* The driver is the only code running and executes its next statement as
\* long as it has one.
SpecLive == Spec /\ WF_vars(Next)

----------------------------------------------------------------------------
(* ds18b20GetTemperture's decoder alone, for every pair of bytes read. *)

\* Lines 219..221 have completed with some bytes TL and TH: every pair is the
\* outcome of 16 read slots on some line.
InitDecode ==
  /\ pc = 224 /\ stack = <<265>>
  /\ p = 8 /\ pin = 8
  /\ wdata = 190 /\ wi = 8
  /\ bit = 0 /\ data = 0 /\ ri = 8
  /\ state = 0
  /\ TL \in Byte /\ TH \in Byte
  /\ temp = 0 /\ ret = 0
  /\ drv = [q \in Pins |-> IF q = 8 THEN 1 ELSE -1]
  /\ held = 0 /\ wbits = <<>> /\ rcount = 16
  /\ calls = 1 /\ chk = "ok" /\ failed = FALSE
  /\ prev = [ret |-> 0, ok |-> FALSE]
  /\ obs = [highs |-> 0, lows |-> 0, rel |-> FALSE]
  /\ log = <<>> /\ lowFor = 2 /\ binds = 1
  /\ InitSleep
  /\ sensor = "present" /\ scratch = <<255, 255>>

NextDecode == GetDecode

SpecDecode == InitDecode /\ [][NextDecode]_vars

----------------------------------------------------------------------------
(* ds18b20Check alone, with the sampled levels counted. *)

\* ds18b20Start has run ds18b20Rest and is at its call of ds18b20Check; the
\* line may show any level at any poll.
InitCheck ==
  /\ pc = 184 /\ stack = <<208, 265>>
  /\ InitLocals
  /\ drv = [q \in Pins |-> IF q = 8 THEN 1 ELSE -1]
  /\ held = 15 /\ wbits = <<>> /\ rcount = 0
  /\ calls = 1 /\ chk = "none" /\ failed = FALSE
  /\ prev = [ret |-> 0, ok |-> FALSE]
  /\ obs = [highs |-> 0, lows |-> 0, rel |-> FALSE]
  /\ log = <<"reset">> /\ lowFor = 750 /\ binds = 1
  /\ InitSleep
  /\ sensor = "present" /\ scratch = <<208, 7>>

NextCheck ==
  \/ CallCheck
  \/ CheckHighObserved
  \/ CheckLowObserved

SpecCheck == InitCheck /\ [][NextCheck]_vars

----------------------------------------------------------------------------
(* ds18b20WiteByte and ds18b20ReadByte back to back on a loopback line. *)

\* A caller: 301: ds18b20WiteByte(v);  302: TL = ds18b20ReadByte();  303: end
InitLoop ==
  /\ pc = 301 /\ stack = <<>>
  /\ InitLocals /\ InitBus /\ InitHist /\ InitSleep
  /\ sensor = "loopback" /\ scratch = <<255, 255>>

\* 301: ds18b20WiteByte(v); for any byte v
LoopWrite ==
  /\ pc = 301
  /\ CallFn(38)
  /\ wdata' \in Byte
  /\ wi' = 0
  /\ UNCHANGED <<sel, rd, state, gt, bus, env, wire, hist, obs, slp, trc>>

\* 302: TL = ds18b20ReadByte();
LoopRead ==
  /\ pc = 302
  /\ CallFn(109)
  /\ data' = DataInit(data)
  /\ ri' = 0
  /\ UNCHANGED <<sel, wr, bit, state, gt, bus, env, wire, hist, obs, slp, trc>>

NextLoop ==
  \/ LoopWrite
  \/ LoopRead
  \/ DoSet
  \/ DoSleep
  \/ WiteByteTest
  \/ WiteByteIncr
  \/ ReadBitSample
  \/ ReadBitReturn
  \/ ReadByteTest
  \/ ReadByteAccum
  \/ ReadByteIncr
  \/ ReadByteReturn

SpecLoop == InitLoop /\ [][NextLoop]_vars

----------------------------------------------------------------------------
(* sleep_us alone, for the delays the driver asks for and for timer values
   next to the points where the int made of the timer wraps. *)

\* The delays passed to sleep_us in this file, and 0.
SleepArgs == {0, 1, 2, 5, 15, 60, 100, 750}

\* The timer, as an int, when sleep_us is entered: just after boot, up to
\* WrapWindow before the int wraps from IntMax to IntMin, and up to
\* WrapWindow before it passes from -1 to 0.
ClockStarts ==
  {0} \cup {IntMax - k : k \in 0..WrapWindow}
      \cup {(0 - 1) - k : k \in 0..WrapWindow}

\* A caller: 311: sleep_us(us);  312: end
InitSleepCall ==
  /\ pc = 12 /\ stack = <<311>>
  /\ InitLocals /\ InitBus /\ InitHist
  /\ us \in SleepArgs
  /\ clock \in ClockStarts
  /\ lasttime = 0 /\ nowtime = 0
  /\ elapsed = 0 /\ elast = 0 /\ enow = 0
  /\ sensor = "absent" /\ scratch = <<255, 255>>

NextSleep ==
  \/ SleepReadLast
  \/ SleepReadNow
  \/ SleepTest
  \/ SleepReturn

SpecSleep == InitSleepCall /\ [][NextSleep]_vars

----------------------------------------------------------------------------
(* Properties of the decoder, checked under SpecDecode. *)

\* The 16-bit value (TH << 8) | TL.
RawOf(th, tl) == 256 * th + tl

\* C2: for every byte pair whose combined 16-bit value does not have its top
\* five bits all set, the decoder returns (TH << 8) | TL sixteenths of a
\* degree.
C2_DecodesPositive ==
  (pc = 0 /\ RawOf(TH, TL) \div 2048 # 31) => ret = RawOf(TH, TL)

\* C3: for every byte pair with the top five bits of TH all set, the decoder
\* returns minus the two's-complement magnitude of (TH << 8) | TL, in
\* sixteenths of a degree.
C3_DecodesNegative ==
  (pc = 0 /\ TH \div 8 = 31) => ret = 0 - ((65536 - RawOf(TH, TL)) % 65536)

----------------------------------------------------------------------------
(* Properties of ds18b20Check, checked under SpecCheck. *)

\* ds18b20Check has returned to ds18b20Start.
CheckReturned == pc = 186

\* C6: on a line that is high at every sample, ds18b20Check takes at most 200
\* samples, never enters its low-phase loop, and returns false once it has
\* taken the 200th.
C6_AllHighFails ==
  obs.lows = 0 =>
    /\ obs.highs <= 200
    /\ pc # 161
    /\ obs.highs = 200 => (CheckReturned /\ chk = "fail")
    /\ CheckReturned => (chk = "fail" /\ obs.highs = 200)

C6_Witness ==
  CheckReturned /\ obs.lows = 0 /\ obs.highs = 200 /\ chk = "fail"

\* C7 as stated: ds18b20Check returns true exactly when a low sample came
\* after fewer than 200 high samples and a high sample then came after fewer
\* than 240 low samples.
C7_PresenceIff ==
  CheckReturned =>
    (chk = "ok" <=>
       (obs.highs < 200 /\ obs.lows >= 1 /\ obs.lows < 240 /\ obs.rel))

\* C7 amended: ds18b20Check returns true exactly when a low sample came after
\* fewer than 200 high samples and a high sample then came after at most 240
\* low samples, the one that ended the high phase included.
C7_PresenceIffAmended ==
  CheckReturned =>
    (chk = "ok" <=>
       (obs.highs < 200 /\ obs.lows >= 1 /\ obs.lows <= 240 /\ obs.rel))

C7_Witness ==
  CheckReturned /\ chk = "ok" /\ obs.highs = 199 /\ obs.lows = 240 /\ obs.rel

----------------------------------------------------------------------------
(* The round trip, checked under SpecLoop. *)

\* C5: on the loopback line, ds18b20ReadByte run right after
\* ds18b20WiteByte(v) returns v, for every byte v.
C5_RoundTrip == pc = 303 => TL = wdata

C5_Witness == pc = 303 /\ wdata = 166 /\ TL = 166 /\ Len(wbits) = 8 /\ rcount = 8

----------------------------------------------------------------------------
(* Properties of sleep_us, checked under SpecSleep. *)

SleepNeverUndershoots == pc = 312 => elapsed >= us

----------------------------------------------------------------------------
(* Properties of a call of temperature(), checked under Spec. *)

\* C1: in either transaction, once ds18b20Check has returned false no write
\* slot and no read slot follows before the next reset pulse.
C1_NoSlotAfterFailedCheck ==
  chk = "fail" => (Len(wbits) = 0 /\ rcount = 0 /\ pc \notin {42, 49, 75})

\* The values a call whose presence checks all succeeded can return.
SuccessfulReadings == {Decoded(th, tl) : th \in Byte, tl \in Byte}

\* C4: a call in which a presence check failed ends with an outcome that no
\* successful call could have returned.
C4_FailureIsExplicit ==
  (pc = 0 /\ calls >= 1 /\ failed) => ret \notin SuccessfulReadings

\* C8: two calls in a row with the same selector, against a sensor that
\* answers every presence check and holds the same scratchpad, return the
\* same value.
C8_SecondCallSameResult ==
  (pc = 0 /\ calls = 2 /\ sensor = "present" /\ ~failed /\ prev.ok)
    => ret = prev.ret

C8_Witness ==
  /\ pc = 0 /\ calls = 2 /\ sensor = "present" /\ ~failed /\ prev.ok
  /\ scratch = <<208, 7>> /\ ret = prev.ret /\ ret # 0

\* C9: once the switch has run, the bus line is pin p for a selector p in
\* 0..16 and pin 8 for every other selector.
C9_BindsSelectedPin ==
  (calls >= 1 /\ pc # 244) =>
    (pin \in Pins /\ pin = IF p \in 0..16 THEN p ELSE 8)

C9_Witness ==
  /\ pc = 265 /\ p = 17 /\ pin = 8

----------------------------------------------------------------------------
(* The slots of ds18b20WiteByte and ds18b20ReadByte, checked under SpecLoop.
   Durations are the delays asked of sleep_us between two changes of the
   line. *)

\* Bit k of the byte v, by its place value.
DataBit(v, k) == IF (v % (2 ^ (k + 1))) >= 2 ^ k THEN 1 ELSE 0

\* C11: every write slot drives the line low, holds it low 2us for a 1 bit
\* or 60us for a 0 bit, drives it high and holds it high 60us for a 1 bit or
\* 2us for a 0 bit; so the slot lasts at least 60us and a 1 bit releases the
\* line within 15us of the start of the slot.
C11_WriteSlotShape ==
  /\ pc \in {43, 50} => (drv[pin] = 0 /\ held = 0)
  /\ pc = 44 => (drv[pin] = 0 /\ held = 2 /\ DataBit(wdata, wi) = 1)
  /\ pc = 51 => (drv[pin] = 0 /\ held = 60 /\ DataBit(wdata, wi) = 0)
  /\ pc \in {45, 52} => (drv[pin] = 1 /\ held = 0)
  /\ pc = 54 =>
       /\ drv[pin] = 1
       /\ lowFor = (IF DataBit(wdata, wi) = 1 THEN 2 ELSE 60)
       /\ held = (IF DataBit(wdata, wi) = 1 THEN 60 ELSE 2)
       /\ lowFor + held >= 60
       /\ DataBit(wdata, wi) = 1 => lowFor <= 15

C11_Witness ==
  /\ pc = 54 /\ wdata = 166 /\ wi = 1 /\ drv[pin] = 1
  /\ lowFor = 2 /\ held = 60

\* C12: every read slot drives the line low for 2us, releases it, samples
\* the line once, no later than 15us after the start of the slot (2us + 5us),
\* returns 1 for a high sample and 0 for a low one, and returns only after
\* the slot has lasted at least 60us.
C12_ReadSlotShape ==
  /\ pc = 76 => (drv[pin] = 0 /\ held = 0 /\ rcount = ri)
  /\ pc = 77 => (drv[pin] = 0 /\ held = 2 /\ rcount = ri)
  /\ pc = 78 => (drv[pin] = 1 /\ held = 0 /\ lowFor = 2 /\ rcount = ri)
  /\ pc = 80 =>
       (drv[pin] = 1 /\ lowFor = 2 /\ lowFor + held <= 15 /\ rcount = ri)
  /\ pc \in {84, 86} =>
       /\ rcount = ri + 1
       /\ bit = wbits[rcount]
       /\ log[Len(log)] = (IF bit = 1 THEN "r1" ELSE "r0")
  /\ pc = 86 => (drv[pin] = 1 /\ lowFor + held >= 60)

C12_Witness ==
  /\ pc = 86 /\ wdata = 166 /\ ri = 0 /\ rcount = 1 /\ bit = 0
  /\ lowFor = 2 /\ held = 65

\* The write slots in which the bits sent appear on the line.
SlotsOf(bits) == [k \in 1..Len(bits) |-> IF bits[k] = 1 THEN "w1" ELSE "w0"]

\* The lines of ds18b20WiteByte.
InWiteByte == pc \in {38, 42, 43, 44, 45, 49, 50, 51, 52, 54}

\* C13: ds18b20WiteByte(data) emits exactly 8 write slots, the k-th of them
\* (k = 0..7) carrying bit k of data, least significant bit first, and the
\* line sees nothing else during the call.
C13_WriteByteLsbFirst ==
  /\ (InWiteByte \/ pc = 302) =>
       /\ \A k \in 1..Len(wbits) : wbits[k] = DataBit(wdata, k - 1)
       /\ log = SlotsOf(wbits)
       /\ rcount = 0
  /\ pc \in {38, 42, 43, 44, 49, 50, 51} => Len(wbits) = wi
  /\ pc \in {45, 52, 54} => Len(wbits) = wi + 1
  /\ pc = 302 => Len(wbits) = 8

C13_Witness ==
  /\ pc = 302 /\ wdata = 166 /\ wbits = <<0, 1, 1, 0, 0, 1, 0, 1>>
  /\ Len(log) = 8

\* The levels sampled in the read slots so far, in order.
IsSample(e) == e \in {"r0", "r1"}

Samples ==
  LET r == SelectSeq(log, IsSample)
  IN  [k \in 1..Len(r) |-> IF r[k] = "r1" THEN 1 ELSE 0]

\* The sum of b[k] * 2^(k-1): the first element in the lowest place.
RECURSIVE PlaceValue(_)
PlaceValue(b) == IF b = <<>> THEN 0 ELSE Head(b) + 2 * PlaceValue(Tail(b))

\* C14: ds18b20ReadByte issues exactly 8 read slots and returns the byte
\* whose bit k is the k-th sample, the first sample in the least significant
\* place: the sum of bk * 2^k, within 0..255.
C14_ReadByteAssembles ==
  /\ pc \in {109, 116, 118} => (Len(Samples) = ri /\ data = PlaceValue(Samples))
  /\ pc \in {116, 118} => ri = 8
  /\ pc = 303 =>
       /\ Len(Samples) = 8 /\ rcount = 8
       /\ TL = PlaceValue(Samples)
       /\ TL \in 0..255

C14_Witness ==
  /\ pc = 303 /\ Samples = <<1, 0, 1, 1, 0, 0, 1, 0>> /\ TL = 77

----------------------------------------------------------------------------
(* The transactions of a call of temperature(), checked under Spec. *)

\* The lines at which getDigitalValue is called.
AtSample == pc \in {80, 149, 161}

\* C15: ds18b20Rest holds the line low for at least 480us (750us), releases
\* it and waits 15us; ds18b20Check takes its first sample only after that
\* release and wait, and the line is never sampled while the reset pulse is
\* driven.
C15_ResetThenSample ==
  /\ pc = 134 => (drv[pin] = 0 /\ held = 0)
  /\ pc = 135 => (drv[pin] = 0 /\ held = 750 /\ held >= 480)
  /\ pc = 136 => (drv[pin] = 1 /\ held = 0 /\ lowFor = 750)
  /\ pc = 137 => (drv[pin] = 1 /\ held = 15 /\ lowFor >= 480)
  /\ pc \in {149, 161} =>
       (log[Len(log)] = "reset" /\ lowFor >= 480 /\ held >= 15)
  /\ AtSample => drv[pin] = 1

C15_Witness ==
  /\ pc = 149 /\ state = 0 /\ calls = 1 /\ sensor = "present"
  /\ log = <<"reset">> /\ lowFor = 750 /\ held = 15 /\ drv[pin] = 1

\* The 8 write slots of the byte v, bit 0 first.
CommandSlots(v) == [k \in 1..8 |-> IF DataBit(v, k - 1) = 1 THEN "w1" ELSE "w0"]

IsPrefix(a, b) == Len(a) <= Len(b) /\ a = SubSeq(b, 1, Len(a))

\* The bus operations of ds18b20Start: Skip ROM [CCh], Convert T [44h].
StartOps == <<"reset", "check", "delay">> \o CommandSlots(204) \o CommandSlots(68)

\* Control is in ds18b20Start or in a function it called.
InStart == Len(stack) >= 2 /\ stack[Len(stack) - 1] = 208

\* C16: ds18b20Start performs, in this order, one reset pulse, one presence
\* check, a settle delay, the 8 write slots of 0xCC and the 8 write slots of
\* 0x44; no write slot comes before the reset and the presence check of the
\* transaction have completed.
C16_StartOrder ==
  /\ InStart => IsPrefix(log, StartOps)
  /\ (InStart /\ pc \in {42, 49}) =>
       (Len(log) >= 3 /\ SubSeq(log, 1, 2) = <<"reset", "check">>)
  /\ pc = 186 => log = <<"reset", "check">>
  /\ pc = 188 => Len(log) = 3
  /\ pc = 189 => Len(log) = 11
  /\ pc = 190 => log = StartOps

C16_Witness ==
  /\ pc = 190 /\ calls = 1 /\ Len(log) = 19 /\ log[3] = "delay"
  /\ SubSeq(log, 4, 11) = <<"w0", "w0", "w1", "w1", "w0", "w0", "w1", "w1">>
  /\ SubSeq(log, 12, 19) = <<"w0", "w0", "w1", "w0", "w0", "w0", "w1", "w0">>

\* The log with each read slot shown as "r", whatever level it sampled.
ShapeOf(l) == [k \in 1..Len(l) |-> IF IsSample(l[k]) THEN "r" ELSE l[k]]

IsBusOp(e) == e # "delay"

EightReads == [k \in 1..8 |-> "r"]

\* What follows ds18b20Start and the conversion delay in the log.
ReadBack == SubSeq(log, Len(StartOps) + 2, Len(log))

\* The bus operations of the read-back transaction: Skip ROM [CCh], Read
\* Scratchpad [BEh], two bytes read.
ReadBackOps ==
  <<"reset", "check">> \o CommandSlots(204) \o CommandSlots(190)
    \o EightReads \o EightReads

\* ds18b20GetTemperture has read both bytes, or the call has returned.
BytesRead == pc = 224 \/ (pc = 0 /\ calls >= 1)

\* C17: after ds18b20Start and the conversion delay the call performs
\* exactly a reset, a presence check, the write of 0xCC, the write of 0xBE
\* and two ds18b20ReadByte calls with a delay between them; the first byte
\* read goes to TL and the second to TH, and the call issues 16 read slots,
\* no more.
C17_ReadBackOrder ==
  /\ Len(Samples) <= 16
  /\ (calls >= 1 /\ Len(log) > Len(StartOps)) =>
       /\ log[Len(StartOps) + 1] = "delay"
       /\ IsPrefix(SelectSeq(ShapeOf(ReadBack), IsBusOp), ReadBackOps)
  /\ pc = 220 => (Len(Samples) = 8 /\ IsSample(log[Len(log)]))
  /\ pc = 221 => (Len(Samples) = 8 /\ log[Len(log)] = "delay")
  /\ BytesRead =>
       /\ SelectSeq(ShapeOf(ReadBack), IsBusOp) = ReadBackOps
       /\ Len(Samples) = 16
       /\ TL = PlaceValue(SubSeq(Samples, 1, 8))
       /\ TH = PlaceValue(SubSeq(Samples, 9, 16))

C17_Witness ==
  /\ pc = 224 /\ calls = 1 /\ sensor = "present" /\ chk = "ok"
  /\ Len(Samples) = 16 /\ TL = 208 /\ TH = 7
  /\ SelectSeq(ShapeOf(ReadBack), IsBusOp) = ReadBackOps

\* The master is about to pull the line low: for a write slot (42, 49), for
\* a read slot (75), or for a reset pulse that follows slots (133).
AtLowPulseStart == pc \in {42, 49, 75} \/ (pc = 133 /\ log # <<>>)

\* C18: during a call, whenever the master starts a low pulse after an
\* earlier one has ended, the line has been released for at least 1us since
\* then, for every byte written and every bit read.
C18_RecoveryGap ==
  (calls >= 1 /\ AtLowPulseStart) => (drv[pin] = 1 /\ held >= 1)

C18_Witness ==
  /\ pc = 42 /\ calls = 1 /\ wdata = 204 /\ wi = 2
  /\ log[Len(log)] = "w0" /\ drv[pin] = 1 /\ held = 2

----------------------------------------------------------------------------
(* Termination of a call, checked under SpecLive. *)

IsReset(e) == e = "reset"

IsCheck(e) == e = "check"

\* The reset pulses and the presence checks of the current call.
Resets == Len(SelectSeq(log, IsReset))

Checks == Len(SelectSeq(log, IsCheck))

\* The call has returned.
CallDone == pc = 0 /\ calls >= 1

\* A call never issues more than two reset pulses or two presence checks,
\* and one that returns has issued two of each, whatever the checks found.
TwoResetsTwoChecks ==
  /\ Resets <= 2 /\ Checks <= 2
  /\ CallDone => (Resets = 2 /\ Checks = 2)

\* Once sleep_us polls again after the overflow, no reading ends the loop.
HungForGood == pc = 16 => lasttime > IntMax - us

----------------------------------------------------------------------------
(* The bus line of a call, checked under Spec. *)

\* A write slot (54), a read slot (86), a reset (137) or the call itself has
\* just completed, or the call is at its conversion wait (210, 213).
AtCompletion == pc \in {54, 86, 137, 210, 213} \/ CallDone

\* C20: in a call of temperature(p) the global pin is assigned once, at
\* entry before any bus activity, and nothing else in the driver changes
\* it; so only the line selected by p is ever driven, and the level the
\* master drove last is high whenever a slot, a reset or the call completes,
\* and during the conversion wait.
C20_OneLinePerCall ==
  /\ [](pc = 244 => (binds = 0 /\ log = <<>>))
  /\ []((calls >= 1 /\ pc # 244) =>
         (binds = 1 /\ pin = IF p \in Pins THEN p ELSE 8))
  /\ [](pc = 265 => log = <<>>)
  /\ [][pin' # pin => (pc = 244 /\ pc' = 265)]_vars
  /\ [][drv' # drv => (drv'[pin] # drv[pin] /\ pin' = pin /\ binds = 1)]_vars
  /\ [](\A q \in Pins : q # pin => drv[q] = 0 - 1)
  /\ [](AtCompletion => drv[pin] = 1)

C20_Witness ==
  /\ CallDone /\ calls = 1 /\ p = 0 /\ pin = 0 /\ binds = 1
  /\ drv[0] = 1 /\ drv[8] = 0 - 1 /\ Len(log) = 56

====
